---- MODULE Spec2Model ----
(***************************************************************************)
(* A model of src/src/sentry/search/django/backend.py: the primary search  *)
(* path (DjangoSearchBackend._build_queryset / query) and the environment  *)
(* path (EnvironmentDjangoSearchBackend.query / find_candidates /          *)
(* filter_candidates).                                                     *)
(*                                                                         *)
(* The backing store is read-only: the tables are chosen by Init and never *)
(* change.  One action models one whole call of an entry point; a call is  *)
(* made from pc = "idle" and leaves its outcome in `outcome`, the steps it *)
(* ran in `steps`, and (filter_candidates) the statement it synthesized in *)
(* `statement`.                                                            *)
(***************************************************************************)
EXTENDS Integers, Sequences, FiniteSets, TLC

VARIABLES
    db,         \* the backing store: one field per table
    tags,       \* the caller's tags argument: [given, items]; items is a dict
    pc,         \* "idle" before the call, "done" after it
    call,       \* the call made: [fn, args], and for query() the group_ids
                \* the store yielded for the date window
    outcome,    \* what the call gave its caller: returned value or exception
    steps,      \* the steps of the handler that ran, in order
    statement   \* filter_candidates: [executed, text, parameters, candidates]

vars == <<db, tags, pc, call, outcome, steps, statement>>

-----------------------------------------------------------------------------
(* Bounds of the model. *)

\* rows of the Group table (the last one belongs to another project)
NumGroups == 7
\* at most this many keyword arguments of query() differ from their defaults
MaxArgs == 2

-----------------------------------------------------------------------------
(* Python values. *)

\* None, for the integer-valued (timestamp, counter) arguments
None == -1
\* None, for the string-valued arguments
NONE == "None"
\* sentry.search.base.EMPTY and ANY: sentinels, distinct from every value
EMPTY == "<EMPTY>"
ANY == "<ANY>"

\* Python truthiness of an optional string / user / release argument
Truthy(v) == v # NONE /\ v # ""
\* Python truthiness of an optional datetime: every datetime is true
TruthyTime(v) == v # None

Min(a, b) == IF a < b THEN a ELSE b

Range(s) == {s[i] : i \in DOMAIN s}

\* the permutations of a finite set, as sequences
RECURSIVE Perms(_)
Perms(S) ==
    IF S = {} THEN {<<>>}
    ELSE UNION {{<<x>> \o p : p \in Perms(S \ {x})} : x \in S}

\* a dict restricted to some of its keys
Restrict(f, S) == [k \in S |-> f[k]]

-----------------------------------------------------------------------------
(* Text: a string is a sequence of characters; icontains ignores case. *)

Lower(c) == CASE c = "F" -> "f" [] c = "O" -> "o" [] c = "B" -> "b" [] OTHER -> c

LowerStr(s) == [i \in DOMAIN s |-> Lower(s[i])]

\* SQL: text ILIKE '%q%'
icontains(text, q) ==
    \E i \in 0..(Len(text) - Len(q)) :
        LowerStr(SubSeq(text, i + 1, i + Len(q))) = LowerStr(q)

-----------------------------------------------------------------------------
(* The backing store.  Rows are records; a table is a set of rows.  The    *)
(* searched project is "p1" (organization "o1"); "p2" is another project.  *)

\* sentry.models.GroupStatus
UNRESOLVED == "UNRESOLVED"
RESOLVED == "RESOLVED"
IGNORED == "IGNORED"
PENDING_DELETION == "PENDING_DELETION"
DELETION_IN_PROGRESS == "DELETION_IN_PROGRESS"
PENDING_MERGE == "PENDING_MERGE"

GroupStatus ==
    <<UNRESOLVED, PENDING_DELETION, RESOLVED, DELETION_IN_PROGRESS, IGNORED,
      PENDING_MERGE>>

project == [id |-> "p1", organization_id |-> "o1"]

Foo == <<"F", "o", "o">>
Bar == <<"b", "a", "r">>

\* Issue i of a store of n issues.  Statuses cycle through all six; the
\* timestamps and the counter take every value of 1..3 among the issues that
\* the default status policy shows; first_seen <= last_seen.
GroupRow(i, n) ==
    [id |-> i,
     project |-> IF i = n THEN "p2" ELSE "p1",
     status |-> GroupStatus[((i - 1) % 6) + 1],
     first_seen |-> 1 + (i % 3),
     last_seen |-> IF i % 2 = 0 THEN 3 ELSE 1 + (i % 3),
     active_at |-> 1 + ((i + 1) % 3),
     times_seen |-> 1 + ((i + 2) % 3),
     message |-> IF i % 2 = 1 THEN Foo ELSE Bar,
     culprit |-> IF i % 3 = 0 THEN Foo ELSE Bar,
     first_release_organization_id |-> IF i % 3 = 1 THEN "o1" ELSE NONE,
     first_release_version |-> IF i % 3 = 1 THEN "1.0" ELSE NONE]

GroupTable(n) == {GroupRow(i, n) : i \in 1..n}

\* GroupBookmark, GroupAssignee, GroupSubscription: membership relations
BookmarkTable(n) ==
    {[project |-> GroupRow(i, n).project, group |-> i, user |-> "u1"] :
        i \in {j \in 1..n : j % 4 = 1}}

AssigneeTable(n) ==
    {[project |-> GroupRow(i, n).project, group |-> i,
      user |-> IF i % 3 = 1 THEN "u1" ELSE "u2"] :
        i \in {j \in 1..n : j % 3 # 0}}

SubscriptionTable(n) ==
    {[project |-> GroupRow(i, n).project, group |-> i, user |-> "u1",
      is_active |-> (i % 4 = 1)] :
        i \in {j \in 1..n : j % 2 = 1}}

\* Event: every issue has an event at 1 + (i % 3) with the issue's message;
\* the even ones a second event at 3, every other one with another message.
EventTable(n) ==
    {[group_id |-> i, project_id |-> GroupRow(i, n).project,
      datetime |-> 1 + (i % 3), message |-> GroupRow(i, n).message] :
        i \in 1..n}
    \cup
    {[group_id |-> i, project_id |-> GroupRow(i, n).project,
      datetime |-> 3, message |-> IF i % 4 = 0 THEN Bar ELSE Foo] :
        i \in {j \in 1..n : j % 2 = 0}}

\* GroupTagValue: unique on (group_id, key, value); the row's project is the
\* issue's project.
TagRow(g, n, k, v, t) ==
    [project_id |-> GroupRow(g, n).project, group_id |-> g, key |-> k,
     value |-> v, first_seen |-> t, last_seen |-> Min(3, t + (g % 2)),
     times_seen |-> 1 + (g % 3)]

TagValueTable(n) ==
    {TagRow(g, n, "environment", IF g % 4 = 0 THEN "dev" ELSE "prod",
            1 + ((g + 1) % 3)) : g \in 1..n}
    \cup {TagRow(g, n, "environment", "dev", 2) :
            g \in {j \in 1..n : j % 3 = 0 /\ j % 4 # 0}}
    \cup {TagRow(g, n, "browser", "ff", 1) : g \in {j \in 1..n : j % 2 = 1}}
    \cup {TagRow(g, n, "browser", "ie", 2) : g \in {j \in 1..n : j % 3 = 1}}
    \cup {TagRow(g, n, "release", "1.0", 1) : g \in {j \in 1..n : j % 3 # 2}}
    \cup {TagRow(g, n, "release", "2.0", 3) : g \in {j \in 1..n : j % 4 = 3}}

Store(n) ==
    [Group |-> GroupTable(n),
     GroupBookmark |-> BookmarkTable(n),
     GroupAssignee |-> AssigneeTable(n),
     GroupSubscription |-> SubscriptionTable(n),
     Event |-> EventTable(n),
     GroupTagValue |-> TagValueTable(n)]

-----------------------------------------------------------------------------
(* The ORM: a queryset is the set of rows it selects; filter(params)     *)
(* keeps the rows that satisfy every lookup of params.                     *)

\* a Django field lookup: field__op = x
Lookup(op, v, x) ==
    CASE op = "exact" -> v = x
      [] op = "gt" -> v > x
      [] op = "gte" -> v >= x
      [] op = "lt" -> v < x
      [] op = "lte" -> v <= x

\* queryset.filter(params), params a set of [field, op, value]
filter(queryset, params) ==
    {r \in queryset : \A p \in params : Lookup(p.op, r[p.field], p.value)}

\* the range with its upper bound always exclusive
range_params_exclusive_to(field, from, from_inclusive, to, to_inclusive) ==
    (IF from # None
     THEN {[field |-> field, op |-> IF from_inclusive THEN "gte" ELSE "gt",
            value |-> from]}
     ELSE {})
    \cup
    (IF to # None THEN {[field |-> field, op |-> "lt", value |-> to]} ELSE {})

\* the params of one range of _build_queryset: gte/gt for the lower bound,
\* lte/lt for the upper one, by the *_inclusive flags; a bound is given when
\* it is a datetime (true) or, for times_seen, not None
range_params(field, from, from_inclusive, to, to_inclusive) ==
    (IF from # None
     THEN {[field |-> field, op |-> IF from_inclusive THEN "gte" ELSE "gt",
            value |-> from]}
     ELSE {})
    \cup
    (IF to # None
     THEN {[field |-> field, op |-> IF to_inclusive THEN "lte" ELSE "lt",
            value |-> to]}
     ELSE {})

\* 'e' if inclusive else '', appended to the operator
inclusive_suffix(operator, inclusive) ==
    IF inclusive
    THEN CASE operator = "gt" -> "gte" [] operator = "lt" -> "lte"
    ELSE operator

add_scalar_filter(queryset, field, operator, value, inclusive) ==
    filter(queryset,
           {[field |-> field, op |-> inclusive_suffix(operator, inclusive),
             value |-> value]})

-----------------------------------------------------------------------------
(* Collaborators outside the source file. *)

SortModes == {"priority", "date", "new", "freq"}

\* sentry.search.django.constants: one score-expression table per dialect,
\* each with an entry for the four sort modes
SORT_CLAUSES ==
    [m \in SortModes |->
        CASE m = "priority" -> "score"
          [] m = "date" -> "EXTRACT(EPOCH FROM last_seen)"
          [] m = "new" -> "EXTRACT(EPOCH FROM first_seen)"
          [] m = "freq" -> "times_seen"]
SQLITE_SORT_CLAUSES ==
    [m \in SortModes |->
        CASE m = "priority" -> "score"
          [] m = "date" -> "last_seen"
          [] m = "new" -> "first_seen"
          [] m = "freq" -> "times_seen"]
MYSQL_SORT_CLAUSES == SQLITE_SORT_CLAUSES
ORACLE_SORT_CLAUSES == SQLITE_SORT_CLAUSES
MSSQL_SORT_CLAUSES == SQLITE_SORT_CLAUSES
MSSQL_ENGINES == {"sql_server.pyodbc"}

\* get_db_engine('default')
Engines == {"postgresql", "sqlite", "mysql", "oracle", "sql_server.pyodbc"}

\* tagstore.get_group_ids_for_search_filter(project_id, environment_id, tags):
\* the issues of the project that have, for every key of tags, a row with that
\* key and (unless the value is ANY) that value
get_group_ids_for_search_filter(store, project_id, environment_id, items) ==
    {g \in {r.group_id : r \in store.GroupTagValue} :
        \A k \in DOMAIN items :
            \E r \in store.GroupTagValue :
                /\ r.project_id = project_id
                /\ r.group_id = g
                /\ r.key = k
                /\ (items[k] = ANY \/ r.value = items[k])}

-----------------------------------------------------------------------------
(* DjangoSearchBackend: the primary path.                                  *)
(*                                                                         *)
(* The inputs of a call are a record: the keyword arguments of query() and *)
(* the configuration the call reads (engine: get_db_engine('default');     *)
(* event_db: router.db_for_read(Event), where Group is on "default").      *)

QueryDefaults ==
    [query |-> <<>>, status |-> NONE, bookmarked_by |-> NONE,
     assigned_to |-> NONE, first_release |-> NONE, sort_by |-> "date",
     unassigned |-> NONE, subscribed_by |-> NONE,
     age_from |-> None, age_from_inclusive |-> TRUE,
     age_to |-> None, age_to_inclusive |-> TRUE,
     last_seen_from |-> None, last_seen_from_inclusive |-> TRUE,
     last_seen_to |-> None, last_seen_to_inclusive |-> TRUE,
     date_from |-> None, date_from_inclusive |-> TRUE,
     date_to |-> None, date_to_inclusive |-> TRUE,
     active_at_from |-> None, active_at_from_inclusive |-> TRUE,
     active_at_to |-> None, active_at_to_inclusive |-> TRUE,
     times_seen |-> None,
     times_seen_lower |-> None, times_seen_lower_inclusive |-> TRUE,
     times_seen_upper |-> None, times_seen_upper_inclusive |-> TRUE,
     limit |-> 100, environment_id |-> NONE,
     tags |-> [given |-> FALSE, items |-> [k \in {} |-> ""]],
     engine |-> "postgresql", event_db |-> "default"]

\* what a handler gives back
Returned(value, ran) == [kind |-> "returned", exc |-> NONE, value |-> value, steps |-> ran]
Raised(exc, ran) == [kind |-> "raised", exc |-> exc, value |-> {}, steps |-> ran]

\* the events of the date window (and of the free text): Event.objects.filter
event_queryset(a, store) ==
    LET params ==
            range_params("datetime", a.date_from, a.date_from_inclusive,
                         a.date_to, a.date_to_inclusive)
        windowed ==
            filter({e \in store.Event : e.project_id = project.id}, params)
    IN  IF a.query # <<>>
        THEN {e \in windowed : icontains(e.message, a.query)}
        ELSE windowed

\* .distinct().values_list('group_id', flat=True)
distinct_group_ids(a, store) == {e.group_id : e \in event_queryset(a, store)}

\* the subsets of S (integers) with k elements
RECURSIVE KSubsets(_, _)
KSubsets(S, k) ==
    IF k = 0 THEN {{}}
    ELSE UNION {{T \cup {x} : T \in KSubsets({y \in S : y > x}, k - 1)} : x \in S}

\* the limit of the [:1000] slice
GROUP_IDS_LIMIT == 1000

\* the ids with no slice taken
group_ids_unsliced(ids) == {ids}

\* [:1000]: the first 1000 ids in the order the store yields them, which is
\* arbitrary: every subset of min(|ids|, 1000) ids is a possible slice
group_ids_slices(ids) ==
    IF Cardinality(ids) <= GROUP_IDS_LIMIT
    THEN {ids}
    ELSE {ids \ D : D \in KSubsets(ids, Cardinality(ids) - GROUP_IDS_LIMIT)}

\* the score-expression table of the dialect; an engine is named by the
\* prefix that engine.startswith tests
score_clauses(engine) ==
    IF engine = "sqlite" THEN SQLITE_SORT_CLAUSES
    ELSE IF engine = "mysql" THEN MYSQL_SORT_CLAUSES
    ELSE IF engine = "oracle" THEN ORACLE_SORT_CLAUSES
    ELSE IF engine \in MSSQL_ENGINES THEN MSSQL_SORT_CLAUSES
    ELSE SORT_CLAUSES

\* line 69, lines 71-77: the project's issues; the free text
by_query(a, queryset) ==
    IF a.query # <<>>
    THEN {r \in queryset : icontains(r.message, a.query)
                            \/ icontains(r.culprit, a.query)}
    ELSE queryset

\* the default policy hiding only two of the three statuses
by_status_showing_merges(a, queryset) ==
    IF a.status = NONE
    THEN {r \in queryset : r.status \notin
              {PENDING_DELETION, DELETION_IN_PROGRESS}}
    ELSE {r \in queryset : r.status = a.status}

\* lines 79-86
by_status(a, queryset) ==
    IF a.status = NONE
    THEN {r \in queryset : r.status \notin
              {PENDING_DELETION, DELETION_IN_PROGRESS, PENDING_MERGE}}
    ELSE {r \in queryset : r.status = a.status}

\* lines 88-92
by_bookmark(a, store, queryset) ==
    IF Truthy(a.bookmarked_by)
    THEN {r \in queryset : \E b \in store.GroupBookmark :
              /\ b.group = r.id
              /\ b.project = project.id
              /\ b.user = a.bookmarked_by}
    ELSE queryset

\* lines 94-102: assigned_to, else (elif) unassigned
by_assignment(a, store, queryset) ==
    IF Truthy(a.assigned_to)
    THEN {r \in queryset : \E x \in store.GroupAssignee :
              /\ x.group = r.id
              /\ x.project = project.id
              /\ x.user = a.assigned_to}
    ELSE IF a.unassigned \in {"True", "False"}
    THEN {r \in queryset :
              (a.unassigned = "True") =
                  (~ \E x \in store.GroupAssignee : x.group = r.id)}
    ELSE queryset

\* lines 104-111
by_subscription(a, store, queryset) ==
    IF a.subscribed_by # NONE
    THEN {r \in queryset : \E u \in store.GroupSubscription :
              /\ u.group = r.id
              /\ u.project = project.id
              /\ u.user = a.subscribed_by
              /\ u.is_active}
    ELSE queryset

\* lines 69-111: project, free text, status, bookmark, assignment, subscription
ownership_queryset(a, store) ==
    by_subscription(a, store,
        by_assignment(a, store,
            by_bookmark(a, store,
                by_status(a,
                    by_query(a, {r \in store.Group : r.project = project.id})))))

ownership_steps(a) ==
    <<"project">>
    \o (IF a.query # <<>> THEN <<"query">> ELSE <<>>)
    \o <<"status">>
    \o (IF Truthy(a.bookmarked_by) THEN <<"bookmarked_by">> ELSE <<>>)
    \o (IF Truthy(a.assigned_to) THEN <<"assigned_to">>
        ELSE IF a.unassigned \in {"True", "False"} THEN <<"unassigned">>
        ELSE <<>>)
    \o (IF a.subscribed_by # NONE THEN <<"subscribed_by">> ELSE <<>>)

\* lines 116-119: the release filter (first_release given and not EMPTY)
by_first_release(a, queryset) ==
    IF Truthy(a.first_release)
    THEN {r \in queryset :
              /\ r.first_release_organization_id = project.organization_id
              /\ r.first_release_version = a.first_release}
    ELSE queryset

\* `if tags:` - a dict that is given and not empty
tags_given(a) == a.tags.given /\ DOMAIN a.tags.items # {}

\* line 122
tag_matches(a, store) ==
    get_group_ids_for_search_filter(store, project.id, a.environment_id,
                                    a.tags.items)

\* lines 125-127
by_tags(a, store, queryset) ==
    IF tags_given(a)
    THEN {r \in queryset : r.id \in tag_matches(a, store)}
    ELSE queryset

\* if cond: queryset = queryset.filter(params)
filter_if(cond, queryset, params) ==
    IF cond THEN filter(queryset, params) ELSE queryset

\* lines 129-186: the range predicates on the issue row
range_queryset(a, queryset) ==
    filter_if(a.times_seen_lower # None \/ a.times_seen_upper # None,
      filter_if(a.times_seen # None,
        filter_if(TruthyTime(a.active_at_from) \/ TruthyTime(a.active_at_to),
          filter_if(TruthyTime(a.last_seen_from) \/ TruthyTime(a.last_seen_to),
            filter_if(TruthyTime(a.age_from) \/ TruthyTime(a.age_to),
              queryset,
              range_params("first_seen", a.age_from, a.age_from_inclusive,
                           a.age_to, a.age_to_inclusive)),
            range_params("last_seen", a.last_seen_from,
                         a.last_seen_from_inclusive, a.last_seen_to,
                         a.last_seen_to_inclusive)),
          range_params("active_at", a.active_at_from,
                       a.active_at_from_inclusive, a.active_at_to,
                       a.active_at_to_inclusive)),
        {[field |-> "times_seen", op |-> "exact", value |-> a.times_seen]}),
      range_params("times_seen", a.times_seen_lower,
                   a.times_seen_lower_inclusive, a.times_seen_upper,
                   a.times_seen_upper_inclusive))

range_steps(a) ==
    (IF TruthyTime(a.age_from) \/ TruthyTime(a.age_to) THEN <<"age">> ELSE <<>>)
    \o (IF TruthyTime(a.last_seen_from) \/ TruthyTime(a.last_seen_to)
        THEN <<"last_seen">> ELSE <<>>)
    \o (IF TruthyTime(a.active_at_from) \/ TruthyTime(a.active_at_to)
        THEN <<"active_at">> ELSE <<>>)
    \o (IF a.times_seen # None THEN <<"times_seen">> ELSE <<>>)
    \o (IF a.times_seen_lower # None \/ a.times_seen_upper # None
        THEN <<"times_seen_range">> ELSE <<>>)

\* `if date_from or date_to:`
date_window_given(a) == TruthyTime(a.date_from) \/ TruthyTime(a.date_to)

\* lines 221-223: id__in=group_ids
by_date_window(a, queryset, group_ids) ==
    IF date_window_given(a)
    THEN {r \in queryset : r.id \in group_ids}
    ELSE queryset

\* lines 188-223: the steps of the date window; the ids are coerced to a list
\* when Event is on another database or the dialect is MySQL
date_steps(a) ==
    IF date_window_given(a)
    THEN <<"event_queryset", "group_ids_slice">>
         \o (IF "default" # a.event_db \/ a.engine = "mysql"
             THEN <<"group_ids_list">> ELSE <<>>)
    ELSE <<>>

\* the steps up to and including the first_release block (lines 69-119)
steps_to_first_release(a) ==
    ownership_steps(a)
    \o (IF Truthy(a.first_release) THEN <<"first_release">> ELSE <<>>)

\* the steps up to and including the tags block (lines 69-127)
steps_to_tags(a) ==
    steps_to_first_release(a)
    \o (IF tags_given(a) THEN <<"tags_lookup">> ELSE <<>>)

\* the steps of a call that reaches the score lookup (lines 69-234)
steps_to_score(a) ==
    steps_to_tags(a) \o range_steps(a) \o date_steps(a) \o <<"score_clause">>

\* queryset.none()
none == [rows |-> {}, sort_value |-> NONE]

\* the score lookup falling back to no score expression (dict.get)
with_default_score_clause(a, queryset) ==
    Returned([rows |-> {r.id : r \in queryset},
              sort_value |-> IF a.sort_by \in DOMAIN score_clauses(a.engine)
                             THEN score_clauses(a.engine)[a.sort_by]
                             ELSE NONE],
             steps_to_score(a))

\* lines 225-239: the score expression of the dialect, attached as sort_value
with_score_clause(a, queryset) ==
    IF a.sort_by \notin DOMAIN score_clauses(a.engine)
    THEN Raised("KeyError", steps_to_score(a))
    ELSE Returned([rows |-> {r.id : r \in queryset},
                   sort_value |-> score_clauses(a.engine)[a.sort_by]],
                  steps_to_score(a))

\* the rest of _build_queryset, from the range predicates on (lines 129-239)
from_ranges(a, store, group_ids) ==
    with_score_clause(a,
        by_date_window(a,
            range_queryset(a,
                by_tags(a, store,
                    by_first_release(a, ownership_queryset(a, store)))),
            group_ids))

\* _build_queryset filtering on EMPTY as on a release version
_build_queryset_without_empty_release(a, store, group_ids) ==
    IF tags_given(a) /\ tag_matches(a, store) = {}
    THEN Returned(none, steps_to_tags(a))
    ELSE from_ranges(a, store, group_ids)

\* _build_queryset going on after an empty tag match
_build_queryset_without_tags_return(a, store, group_ids) ==
    IF Truthy(a.first_release) /\ a.first_release = EMPTY
    THEN Returned(none, steps_to_first_release(a))
    ELSE from_ranges(a, store, group_ids)

\* _build_queryset(project, kwargs); group_ids is the slice the store yields
\* for the date window.  The value is the queryset: its rows, and the score
\* expression attached as sort_value (NONE for queryset.none()).
_build_queryset(a, store, group_ids) ==
    IF Truthy(a.first_release) /\ a.first_release = EMPTY
    THEN Returned(none, steps_to_first_release(a))
    ELSE IF tags_given(a) /\ tag_matches(a, store) = {}
    THEN Returned(none, steps_to_tags(a))
    ELSE from_ranges(a, store, group_ids)

\* sentry.api.paginator: get_result(limit, cursor, count_hits) pages the
\* ordered queryset.  The page is kept as the ids of the queryset it is cut
\* from (results), the order column and the page size: it is empty exactly
\* when the queryset is.
get_result(paginator_cls, queryset, sort_clause, limit) ==
    [results |-> queryset.rows, paginator |-> paginator_cls,
     order_by |-> sort_clause, limit |-> limit]

\* lines 251-270: the paginator and the order column of the sort mode
paginate(a, built) ==
    IF built.kind = "raised" THEN built
    ELSE Returned(get_result(IF a.sort_by \in {"date", "new"}
                             THEN "DateTimePaginator" ELSE "Paginator",
                             built.value,
                             CASE a.sort_by = "date" -> "-last_seen"
                               [] a.sort_by = "priority" -> "-score"
                               [] a.sort_by = "new" -> "-first_seen"
                               [] a.sort_by = "freq" -> "-times_seen"
                               [] OTHER -> "-sort_value",
                             a.limit),
                  built.steps \o <<"order_by", "get_result">>)

\* DjangoSearchBackend.query
query(a, store, group_ids) == paginate(a, _build_queryset(a, store, group_ids))

-----------------------------------------------------------------------------
(* EnvironmentDjangoSearchBackend: the environment path.                   *)

\* EnvironmentDjangoSearchBackend.query: nothing is implemented yet
environment_query(a) ==
    IF a.environment_id = NONE /\ ~a.optimize
    THEN Raised("AssertionError", <<>>)
    ELSE Raised("NotImplementedError", <<>>)

FindDefaults ==
    [query |-> <<>>, status |-> NONE, bookmarked_by |-> NONE,
     assigned_to |-> NONE, unassigned |-> NONE, subscribed_by |-> NONE,
     active_at_from |-> None, active_at_from_inclusive |-> TRUE,
     active_at_to |-> None, active_at_to_inclusive |-> TRUE,
     first_release |-> NONE,
     optimize |-> FALSE]

\* lines 366-434: the candidate queryset.  Unlike _build_queryset, every
\* optional filter is applied when its argument is not None.
find_queryset(a, store) ==
    LET q0 == {r \in store.Group : r.project = project.id}
        q1 == IF a.query # <<>>
              THEN {r \in q0 : icontains(r.message, a.query)
                                \/ icontains(r.culprit, a.query)}
              ELSE q0
        q2 == IF a.status = NONE
              THEN {r \in q1 : r.status \notin
                        {PENDING_DELETION, DELETION_IN_PROGRESS, PENDING_MERGE}}
              ELSE {r \in q1 : r.status = a.status}
        q3 == IF Truthy(a.bookmarked_by)
              THEN {r \in q2 : \E b \in store.GroupBookmark :
                        /\ b.group = r.id
                        /\ b.project = project.id
                        /\ b.user = a.bookmarked_by}
              ELSE q2
        q4 == IF a.assigned_to # NONE
              THEN {r \in q3 : \E x \in store.GroupAssignee :
                        /\ x.group = r.id
                        /\ x.project = project.id
                        /\ x.user = a.assigned_to}
              ELSE q3
        q5 == IF a.unassigned # NONE
              THEN {r \in q4 :
                        (a.unassigned = "True") =
                            (~ \E x \in store.GroupAssignee : x.group = r.id)}
              ELSE q4
        q6 == IF a.subscribed_by # NONE
              THEN {r \in q5 : \E u \in store.GroupSubscription :
                        /\ u.group = r.id
                        /\ u.project = project.id
                        /\ u.user = a.subscribed_by
                        /\ u.is_active}
              ELSE q5
        q7 == IF a.active_at_from # None
              THEN add_scalar_filter(q6, "active_at", "gt", a.active_at_from,
                                     a.active_at_from_inclusive)
              ELSE q6
    IN  IF a.active_at_to # None
        THEN add_scalar_filter(q7, "active_at", "lt", a.active_at_to,
                               a.active_at_to_inclusive)
        ELSE q7

\* the steps up to the first assert (lines 366-386)
find_steps_to_bookmark(a) ==
    <<"project">>
    \o (IF a.query # <<>> THEN <<"query">> ELSE <<>>)
    \o <<"status">>
    \o (IF Truthy(a.bookmarked_by) THEN <<"bookmarked_by">> ELSE <<>>)

\* the steps up to the first_release check (lines 366-434)
find_steps(a) ==
    find_steps_to_bookmark(a)
    \o (IF a.assigned_to # NONE THEN <<"assigned_to">> ELSE <<>>)
    \o (IF a.unassigned # NONE THEN <<"unassigned">> ELSE <<>>)
    \o (IF a.subscribed_by # NONE THEN <<"subscribed_by">> ELSE <<>>)
    \o (IF a.active_at_from # None THEN <<"active_at_from">> ELSE <<>>)
    \o (IF a.active_at_to # None THEN <<"active_at_to">> ELSE <<>>)

\* find_candidates with the release filter silently skipped
find_candidates_ignoring_release(a, store) ==
    IF a.assigned_to # NONE /\ a.unassigned # NONE /\ ~a.optimize
    THEN Raised("AssertionError", find_steps_to_bookmark(a))
    ELSE Returned({r.id : r \in find_queryset(a, store)},
                  find_steps(a) \o <<"execute">>)

\* find_candidates.  `optimize` is the interpreter's -O switch, under which the
\* assert statements are not executed.  The queryset is lazy: the only query
\* against the store is the one of the return statement ("execute").
find_candidates(a, store) ==
    IF a.assigned_to # NONE /\ a.unassigned # NONE /\ ~a.optimize
    THEN Raised("AssertionError", find_steps_to_bookmark(a))
    ELSE IF a.first_release # NONE
    THEN Raised("NotImplementedError", find_steps(a))
    ELSE Returned({r.id : r \in find_queryset(a, store)},
                  find_steps(a) \o <<"execute">>)

-----------------------------------------------------------------------------
(* filter_candidates: the statement it synthesizes.                        *)
(*                                                                         *)
(* The statement text is a sequence of clauses in text order.  A clause    *)
(* names only identifiers (columns, aliases, operators) and says how many  *)
(* %s placeholders it holds; the literals travel in the parameter list,    *)
(* each a typed value.                                                     *)

IntParam(n) == [type |-> "int", int |-> n, str |-> ""]
StrParam(v) == [type |-> "str", int |-> 0, str |-> v]

sort_strategies ==
    [priority |-> "log(times_seen) * 600 + last_seen::abstime::int",
     date |-> "last_seen",
     new |-> "first_seen",
     freq |-> "times_seen"]

\* GroupTagValue._meta.db_table
db_table == "tagstore_grouptagvalue"

Alias(base, n) == [base |-> base, n |-> n]
NoAlias == Alias("", 0)

Clause(kind, column, op, nparams, alias, previous_alias) ==
    [kind |-> kind, column |-> column, op |-> op, nparams |-> nparams,
     alias |-> alias, previous_alias |-> previous_alias]

FilterDefaults ==
    [candidates_given |-> FALSE, candidates |-> {},
     age_from |-> None, age_from_inclusive |-> TRUE,
     age_to |-> None, age_to_inclusive |-> TRUE,
     last_seen_from |-> None, last_seen_from_inclusive |-> TRUE,
     last_seen_to |-> None, last_seen_to_inclusive |-> TRUE,
     times_seen |-> None,
     times_seen_lower |-> None, times_seen_lower_inclusive |-> TRUE,
     times_seen_upper |-> None, times_seen_upper_inclusive |-> TRUE,
     sort_by |-> "date",
     tags |-> [given |-> FALSE, items |-> [k \in {} |-> ""]],
     engine |-> "postgresql"]

\* a set of integers as the ascending list of its elements
RECURSIVE SortedList(_)
SortedList(S) ==
    IF S = {} THEN <<>>
    ELSE LET m == CHOOSE x \in S : \A y \in S : x <= y
         IN  <<m>> \o SortedList(S \ {m})

\* one condition of the candidate queryset: a column, a lookup, its values
Condition(column, op, values) == [column |-> column, op |-> op, values |-> values]

\* lines 474-522: the conditions of the candidate queryset, in filter order
candidate_conditions(f, environment) ==
    <<Condition("project_id", "exact", <<StrParam(project.id)>>),
      Condition("key", "exact", <<StrParam("environment")>>),
      Condition("value", "exact", <<StrParam(environment)>>)>>
    \o (IF f.candidates_given
        THEN <<Condition("group_id", "in",
                         [i \in 1..Cardinality(f.candidates) |->
                             IntParam(SortedList(f.candidates)[i])])>>
        ELSE <<>>)
    \o (IF f.age_from # None
        THEN <<Condition("first_seen",
                         inclusive_suffix("gt", f.age_from_inclusive),
                         <<IntParam(f.age_from)>>)>>
        ELSE <<>>)
    \o (IF f.age_to # None
        THEN <<Condition("first_seen",
                         inclusive_suffix("lt", f.age_to_inclusive),
                         <<IntParam(f.age_to)>>)>>
        ELSE <<>>)
    \o (IF f.last_seen_from # None
        THEN <<Condition("last_seen",
                         inclusive_suffix("gt", f.last_seen_from_inclusive),
                         <<IntParam(f.last_seen_from)>>)>>
        ELSE <<>>)
    \o (IF f.last_seen_to # None
        THEN <<Condition("last_seen",
                         inclusive_suffix("lt", f.last_seen_to_inclusive),
                         <<IntParam(f.last_seen_to)>>)>>
        ELSE <<>>)
    \o (IF f.times_seen_lower # None
        THEN <<Condition("times_seen",
                         inclusive_suffix("gt", f.times_seen_lower_inclusive),
                         <<IntParam(f.times_seen_lower)>>)>>
        ELSE <<>>)
    \o (IF f.times_seen_upper # None
        THEN <<Condition("times_seen",
                         inclusive_suffix("lt", f.times_seen_upper_inclusive),
                         <<IntParam(f.times_seen_upper)>>)>>
        ELSE <<>>)

RECURSIVE Flatten(_)
Flatten(ss) == IF ss = <<>> THEN <<>> ELSE Head(ss) \o Flatten(Tail(ss))

\* lines 537-539: as_nested_sql() of queryset.values('group_id', 'sort_key'):
\* the text selects the sort expression and holds one clause per condition;
\* the parameters are the conditions' values in the same order
candidate_query(conditions, sort_by) ==
    <<Clause("select", sort_strategies[sort_by], "", 0, Alias("candidates", 0),
             NoAlias)>>
    \o [i \in DOMAIN conditions |->
           Clause("cte_where", conditions[i].column, conditions[i].op,
                  Len(conditions[i].values), NoAlias, NoAlias)]

candidate_parameters(conditions) ==
    Flatten([i \in DOMAIN conditions |-> conditions[i].values])

\* lines 559-566: one LATERAL clause per presence key, aliases numbered from 0
lateral_queries(presence) ==
    [i \in DOMAIN presence |->
        Clause("lateral", "key", "exact", 1,
               Alias("grouptagvalue_lateral", i - 1), Alias("candidates", 0))]

\* lines 568-577: one INNER JOIN per equality constraint, each on the alias
\* before it (the first on candidates), aliases numbered from 0
join_conditions(specific) ==
    [i \in DOMAIN specific |->
        Clause("join", "group_id", "exact", 0,
               Alias("grouptagvalue_join", i - 1),
               IF i = 1 THEN Alias("candidates", 0)
               ELSE Alias("grouptagvalue_join", i - 2))]

\* lines 578-580: (alias.key = %s AND alias.value = %s)
where_conditions(specific) ==
    [i \in DOMAIN specific |->
        Clause("where", "key,value", "exact", 2,
               Alias("grouptagvalue_join", i - 1), NoAlias)]

\* lines 583-598: the statement text.  presence and specific are the keys of
\* presence_tags and specific_tags in the order the loops visit them.
statement_text(conditions, sort_by, presence, specific) ==
    candidate_query(conditions, sort_by)
    \o join_conditions(specific)
    \o lateral_queries(presence)
    \o where_conditions(specific)
    \o <<Clause("order_by", "sort_key", "DESC", 0, Alias("candidates", 0), NoAlias)>>

\* the parameter list with the equality pairs before the presence keys
statement_parameters_pairs_first(conditions, items, presence, specific) ==
    candidate_parameters(conditions)
    \o Flatten([i \in DOMAIN specific |->
                   <<StrParam(specific[i]), StrParam(items[specific[i]])>>])
    \o [i \in DOMAIN presence |-> StrParam(presence[i])]

\* lines 544, 566, 581: the parameter list
statement_parameters(conditions, items, presence, specific) ==
    candidate_parameters(conditions)
    \o [i \in DOMAIN presence |-> StrParam(presence[i])]
    \o Flatten([i \in DOMAIN specific |->
                   <<StrParam(specific[i]), StrParam(items[specific[i]])>>])

-----------------------------------------------------------------------------
(* filter_candidates: the execution of the statement.  The i-th %s of the  *)
(* text is bound to the i-th parameter.                                    *)

\* the number of placeholders before clause i
RECURSIVE Offset(_, _)
Offset(text, i) ==
    IF i <= 1 THEN 0 ELSE Offset(text, i - 1) + text[i - 1].nparams

Placeholders(text) == Offset(text, Len(text) + 1)

\* the parameters bound to the placeholders of clause i
Bound(text, parameters, i) ==
    [k \in 1..text[i].nparams |-> parameters[Offset(text, i) + k]]

IntColumns == {"group_id", "first_seen", "last_seen", "times_seen"}

\* column <op> the bound values, by the column's type
Matches(column, v, op, ps) ==
    IF op = "in"
    THEN \E j \in DOMAIN ps : ps[j].type = "int" /\ ps[j].int = v
    ELSE IF column \in IntColumns
    THEN ps[1].type = "int" /\ Lookup(op, v, ps[1].int)
    ELSE ps[1].type = "str" /\ v = ps[1].str

\* log(n) * 600, to the integer below
Log600(n) ==
    CASE n = 1 -> 0 [] n = 2 -> 180 [] n = 3 -> 286 [] n = 4 -> 361
      [] OTHER -> 419

\* the value of a sort expression on a tag-value row
SortKey(expression, r) ==
    CASE expression = "last_seen" -> r.last_seen
      [] expression = "first_seen" -> r.first_seen
      [] expression = "times_seen" -> r.times_seen
      [] OTHER -> Log600(r.times_seen) + r.last_seen

Indices(text, kind) == {i \in DOMAIN text : text[i].kind = kind}

\* WITH candidates AS (...): the rows of the candidate query
CandidateRows(text, parameters, store) ==
    {r \in store.GroupTagValue :
        \A i \in Indices(text, "cte_where") :
            Matches(text[i].column, r[text[i].column], text[i].op,
                    Bound(text, parameters, i))}

\* the rows of join alias text[j].alias that join candidate group g and pass
\* the WHERE conditions on that alias
JoinedRows(text, parameters, store, j, g) ==
    {r \in store.GroupTagValue :
        /\ r.group_id = g
        /\ \A w \in Indices(text, "where") :
               text[w].alias = text[j].alias =>
                   /\ Matches("key", r.key, "exact",
                              <<Bound(text, parameters, w)[1]>>)
                   /\ Matches("value", r.value, "exact",
                              <<Bound(text, parameters, w)[2]>>)}

\* LATERAL (SELECT ... WHERE group_id = candidates.group_id AND key = %s
\* LIMIT 1): at most one row
LateralRows(text, parameters, store, l, g) ==
    IF \E r \in store.GroupTagValue :
           /\ r.group_id = g
           /\ Matches("key", r.key, "exact", Bound(text, parameters, l))
    THEN 1 ELSE 0

RECURSIVE Product(_)
Product(ns) == IF ns = <<>> THEN 1 ELSE Head(ns) * Product(Tail(ns))

\* how many result rows one candidate row yields: the product, over the FROM
\* items, of the rows each contributes
Multiplicity(text, parameters, store, g) ==
    Product([i \in DOMAIN text |->
                CASE text[i].kind = "join" ->
                         Cardinality(JoinedRows(text, parameters, store, i, g))
                  [] text[i].kind = "lateral" ->
                         LateralRows(text, parameters, store, i, g)
                  [] OTHER -> 1])

\* the sequences of S in non-increasing order of key, ties in any order
RECURSIVE Descending(_)
Descending(S) ==
    IF S = {} THEN {<<>>}
    ELSE UNION {{<<x>> \o p : p \in Descending(S \ {x})} :
                    x \in {y \in S : \A z \in S : y.sort_key >= z.sort_key}}

\* cursor.execute(query, parameters): the lists of group ids the statement may
\* yield (ORDER BY candidates.sort_key DESC leaves the order of ties open)
Execute(text, parameters, store) ==
    LET expression == text[CHOOSE i \in Indices(text, "select") : TRUE].column
        rows ==
            UNION {{[group_id |-> r.group_id,
                     sort_key |-> SortKey(expression, r),
                     row |-> r, copy |-> n] :
                       n \in 1..Multiplicity(text, parameters, store, r.group_id)} :
                   r \in CandidateRows(text, parameters, store)}
    IN  {[i \in DOMAIN p |-> p[i].group_id] : p \in Descending(rows)}

-----------------------------------------------------------------------------
(* filter_candidates, the handler. *)

\* sentry.utils.db.is_postgres
is_postgres(engine) == engine = "postgresql"

\* a Python value: None, or a list
PyNone == [type |-> "NoneType", items |-> <<>>]
PyList(items) == [type |-> "list", items |-> items]

\* tags.pop('environment'): what is left in the caller's dict
tags_after_pop(t) ==
    IF t.given /\ "environment" \in DOMAIN t.items
    THEN [t EXCEPT !.items = Restrict(t.items, DOMAIN t.items \ {"environment"})]
    ELSE t

\* the keys of presence_tags and of specific_tags (lines 546-553)
presence_tags(t) ==
    {k \in DOMAIN tags_after_pop(t).items : t.items[k] = ANY}
specific_tags(t) ==
    {k \in DOMAIN tags_after_pop(t).items : t.items[k] # ANY}

\* the steps before the dialect branch; the querysets are lazy, none of them
\* queries the store
filter_steps_run(f) ==
    <<"tags.pop">>
    \o (IF f.candidates_given THEN <<"candidates">> ELSE <<>>)
    \o (IF f.age_from # None THEN <<"age_from">> ELSE <<>>)
    \o (IF f.age_to # None THEN <<"age_to">> ELSE <<>>)
    \o (IF f.last_seen_from # None THEN <<"last_seen_from">> ELSE <<>>)
    \o (IF f.last_seen_to # None THEN <<"last_seen_to">> ELSE <<>>)
    \o (IF f.times_seen_lower # None THEN <<"times_seen_lower">> ELSE <<>>)
    \o (IF f.times_seen_upper # None THEN <<"times_seen_upper">> ELSE <<>>)
    \o <<"sort_key">>

\* filter_candidates: what the call gives its caller.  The list read from the
\* cursor is bound to the local name `candidates`; the function ends without
\* a return statement.
filter_candidates(f) ==
    LET t == f.tags
    IN  IF ~t.given
        THEN Raised("AttributeError", <<>>)
        ELSE IF "environment" \notin DOMAIN t.items
        THEN Raised("KeyError", <<>>)
        ELSE IF f.times_seen # None
        THEN Raised("AttributeError",
                    SubSeq(filter_steps_run([f EXCEPT !.times_seen_lower = None,
                                                      !.times_seen_upper = None]),
                           1, Len(filter_steps_run(
                                     [f EXCEPT !.times_seen_lower = None,
                                               !.times_seen_upper = None])) - 1))
        ELSE IF f.sort_by \notin DOMAIN sort_strategies
        THEN Raised("KeyError",
                    SubSeq(filter_steps_run(f), 1, Len(filter_steps_run(f)) - 1))
        ELSE IF ~is_postgres(f.engine)
        THEN Raised("NotImplementedError", filter_steps_run(f))
        ELSE Returned(PyNone, filter_steps_run(f) \o <<"statement", "execute">>)

-----------------------------------------------------------------------------
(* The inputs the calls are made with. *)

NoTags == [given |-> FALSE, items |-> [k \in {} |-> ""]]

TagKeys == {"environment", "browser", "release"}

TagValues(k) ==
    CASE k = "environment" -> {"prod", "dev"}
      [] k = "browser" -> {ANY, "ff", "opera"}
      [] k = "release" -> {ANY, "1.0"}

\* the dicts over some of the keys
TagMaps ==
    UNION {{m \in [K -> UNION {TagValues(k) : k \in TagKeys}] :
                \A k \in K : m[k] \in TagValues(k)} : K \in SUBSET TagKeys}

TagArgs == {NoTags} \cup {[given |-> TRUE, items |-> m] : m \in TagMaps}

\* the bound of every range argument; the rows hold 1, 2 and 3
BoundValues == {2}

\* d with one more argument set
QueryOverrides(d) ==
    {[d EXCEPT !.query = <<"f", "O">>]}
    \cup {[d EXCEPT !.status = v] : v \in Range(GroupStatus)}
    \cup {[d EXCEPT !.bookmarked_by = "u1"]}
    \cup {[d EXCEPT !.assigned_to = "u1"]}
    \cup {[d EXCEPT !.unassigned = b] : b \in {"True", "False"}}
    \cup {[d EXCEPT !.subscribed_by = "u1"]}
    \cup {[d EXCEPT !.first_release = v] : v \in {EMPTY, "1.0"}}
    \cup {[d EXCEPT !.sort_by = m] : m \in {"priority", "new", "freq", "bogus"}}
    \cup {[d EXCEPT !.tags = t] :
            t \in {x \in TagArgs : x.given /\ "environment" \notin DOMAIN x.items}}
    \cup {[d EXCEPT !.age_from = x, !.age_from_inclusive = b] :
            x \in BoundValues, b \in BOOLEAN}
    \cup {[d EXCEPT !.age_to = x, !.age_to_inclusive = b] :
            x \in BoundValues, b \in BOOLEAN}
    \cup {[d EXCEPT !.last_seen_from = x, !.last_seen_from_inclusive = b] :
            x \in BoundValues, b \in BOOLEAN}
    \cup {[d EXCEPT !.last_seen_to = x, !.last_seen_to_inclusive = b] :
            x \in BoundValues, b \in BOOLEAN}
    \cup {[d EXCEPT !.active_at_from = x, !.active_at_from_inclusive = b] :
            x \in BoundValues, b \in BOOLEAN}
    \cup {[d EXCEPT !.active_at_to = x, !.active_at_to_inclusive = b] :
            x \in BoundValues, b \in BOOLEAN}
    \cup {[d EXCEPT !.date_from = x, !.date_from_inclusive = b] :
            x \in BoundValues, b \in BOOLEAN}
    \cup {[d EXCEPT !.date_to = x, !.date_to_inclusive = b] :
            x \in BoundValues, b \in BOOLEAN}
    \cup {[d EXCEPT !.times_seen = x] : x \in BoundValues}
    \cup {[d EXCEPT !.times_seen_lower = x, !.times_seen_lower_inclusive = b] :
            x \in BoundValues, b \in BOOLEAN}
    \cup {[d EXCEPT !.times_seen_upper = x, !.times_seen_upper_inclusive = b] :
            x \in BoundValues, b \in BOOLEAN}
    \cup {[d EXCEPT !.engine = e] : e \in Engines}
    \cup {[d EXCEPT !.event_db = "events"]}

\* a finite set as a list, in some order
RECURSIVE ListOf(_)
ListOf(S) ==
    IF S = {} THEN <<>>
    ELSE LET x == CHOOSE y \in S : TRUE
         IN  <<x>> \o ListOf(S \ {x})

\* the sets of at most k of the integers lo..n
RECURSIVE Choices(_, _, _)
Choices(lo, n, k) ==
    IF k = 0 \/ lo > n THEN {{}}
    ELSE {{}} \cup UNION {{U \cup {i} : U \in Choices(i + 1, n, k - 1)} : i \in lo..n}

\* d with every argument that e sets
Merge(defaults, d, e) ==
    [n \in DOMAIN d |-> IF e[n] # defaults[n] THEN e[n] ELSE d[n]]

RECURSIVE MergeAll(_, _, _)
MergeAll(defaults, singles, U) ==
    IF U = {} THEN defaults
    ELSE LET i == CHOOSE x \in U : \A y \in U : x >= y
         IN  Merge(defaults, MergeAll(defaults, singles, U \ {i}), singles[i])

\* the calls of query() with one argument set
QuerySingles == ListOf(QueryOverrides(QueryDefaults) \ {QueryDefaults})

\* the calls of query() with at most MaxArgs arguments set
QueryArgs ==
    {MergeAll(QueryDefaults, QuerySingles, U) :
        U \in Choices(1, Len(QuerySingles), MaxArgs)}

\* every call of find_candidates over the argument values
FindArgs ==
    {[query |-> q, status |-> s, bookmarked_by |-> b, assigned_to |-> a,
      unassigned |-> u, subscribed_by |-> sb,
      active_at_from |-> af[1], active_at_from_inclusive |-> af[2],
      active_at_to |-> at[1], active_at_to_inclusive |-> at[2],
      first_release |-> fr, optimize |-> o] :
        q \in {<<>>, <<"f", "O">>},
        s \in {NONE} \cup Range(GroupStatus),
        b \in {NONE, "u1"}, a \in {NONE, "u1"},
        u \in {NONE, "True", "False"}, sb \in {NONE, "u1"},
        af \in {<<None, TRUE>>} \cup (BoundValues \X BOOLEAN),
        at \in {<<None, TRUE>>} \cup (BoundValues \X BOOLEAN),
        fr \in {NONE, EMPTY, "1.0"}, o \in BOOLEAN}

FilterOverrides(d) ==
    {[d EXCEPT !.candidates_given = TRUE, !.candidates = c] :
        c \in {{1, 2, 3}, {2, 5}}}
    \cup {[d EXCEPT !.age_from = x, !.age_from_inclusive = b] :
            x \in BoundValues, b \in BOOLEAN}
    \cup {[d EXCEPT !.age_to = x, !.age_to_inclusive = b] :
            x \in BoundValues, b \in BOOLEAN}
    \cup {[d EXCEPT !.last_seen_from = x, !.last_seen_from_inclusive = b] :
            x \in BoundValues, b \in BOOLEAN}
    \cup {[d EXCEPT !.last_seen_to = x, !.last_seen_to_inclusive = b] :
            x \in BoundValues, b \in BOOLEAN}
    \cup {[d EXCEPT !.times_seen = x] : x \in BoundValues}
    \cup {[d EXCEPT !.times_seen_lower = x, !.times_seen_lower_inclusive = b] :
            x \in BoundValues, b \in BOOLEAN}
    \cup {[d EXCEPT !.times_seen_upper = x, !.times_seen_upper_inclusive = b] :
            x \in BoundValues, b \in BOOLEAN}
    \cup {[d EXCEPT !.sort_by = m] : m \in {"priority", "new", "freq", "bogus"}}
    \cup {[d EXCEPT !.engine = e] : e \in {"mysql", "sqlite"}}

FilterSingles == ListOf(FilterOverrides(FilterDefaults) \ {FilterDefaults})

\* the calls of filter_candidates: any tags argument, and at most MaxArgs
\* other arguments set
FilterArgs ==
    {[MergeAll(FilterDefaults, FilterSingles, U) EXCEPT !.tags = t] :
        U \in Choices(1, Len(FilterSingles), MaxArgs), t \in TagArgs}

EnvironmentQueryArgs ==
    [environment_id : {NONE, "e1"}, date_from : {None} \cup BoundValues,
     date_to : {None} \cup BoundValues, optimize : BOOLEAN]

-----------------------------------------------------------------------------
(* The state machine. *)

NoCall == [fn |-> "none", args |-> <<>>]
NoOutcome == [kind |-> "none", exc |-> NONE, value |-> {}]
NoStatement ==
    [executed |-> FALSE, text |-> <<>>, parameters |-> <<>>, candidates |-> <<>>]

Init ==
    /\ db = Store(NumGroups)
    /\ tags = NoTags
    /\ pc = "idle"
    /\ call = NoCall
    /\ outcome = NoOutcome
    /\ steps = <<>>
    /\ statement = NoStatement

\* the call ends: its caller gets r, and the steps that ran are recorded
Gives(r) ==
    /\ outcome' = [kind |-> r.kind, exc |-> r.exc, value |-> r.value]
    /\ steps' = r.steps

\* DjangoSearchBackend.query(project, kwargs)
Query(Args) ==
    /\ pc = "idle"
    /\ \E a \in Args :
        \E group_ids \in (IF date_window_given(a)
                          THEN group_ids_slices(distinct_group_ids(a, db))
                          ELSE {{}}) :
            /\ call' = [fn |-> "query", args |-> a, group_ids |-> group_ids]
            /\ Gives(query(a, db, group_ids))
            /\ tags' = a.tags
    /\ statement' = NoStatement
    /\ pc' = "done"
    /\ UNCHANGED db

\* EnvironmentDjangoSearchBackend.query
EnvironmentQuery ==
    /\ pc = "idle"
    /\ \E a \in EnvironmentQueryArgs :
        /\ call' = [fn |-> "environment_query", args |-> a]
        /\ Gives(environment_query(a))
    /\ tags' = NoTags
    /\ statement' = NoStatement
    /\ pc' = "done"
    /\ UNCHANGED db

\* EnvironmentDjangoSearchBackend.find_candidates
FindCandidates ==
    /\ pc = "idle"
    /\ \E a \in FindArgs :
        /\ call' = [fn |-> "find_candidates", args |-> a]
        /\ Gives(find_candidates(a, db))
    /\ tags' = NoTags
    /\ statement' = NoStatement
    /\ pc' = "done"
    /\ UNCHANGED db

\* EnvironmentDjangoSearchBackend.filter_candidates
FilterCandidates(Args) ==
    /\ pc = "idle"
    /\ \E f \in Args :
        \E presence \in Perms(presence_tags(f.tags)),
           specific \in Perms(specific_tags(f.tags)) :
            LET executed == filter_candidates(f).kind = "returned"
                conditions == candidate_conditions(f, f.tags.items["environment"])
                text == statement_text(conditions, f.sort_by, presence, specific)
                parameters ==
                    statement_parameters(conditions, f.tags.items, presence, specific)
            IN  /\ call' = [fn |-> "filter_candidates", args |-> f]
                /\ Gives(filter_candidates(f))
                /\ tags' = tags_after_pop(f.tags)
                /\ IF executed
                   THEN \E rows \in Execute(text, parameters, db) :
                            statement' = [executed |-> TRUE, text |-> text,
                                          parameters |-> parameters,
                                          candidates |-> rows]
                   ELSE statement' = NoStatement
    /\ pc' = "done"
    /\ UNCHANGED db

Next ==
    \/ Query(QueryArgs)
    \/ EnvironmentQuery
    \/ FindCandidates
    \/ FilterCandidates(FilterArgs)

Spec == Init /\ [][Next]_vars

-----------------------------------------------------------------------------
(* The date window at the cap: query() against a store whose project holds *)
(* GROUP_IDS_LIMIT issues, or one more, each with events.                  *)

\* a store of n issues with their events and nothing else
DateStore(n) ==
    [Group |-> GroupTable(n),
     GroupBookmark |-> {},
     GroupAssignee |-> {},
     GroupSubscription |-> {},
     Event |-> EventTable(n),
     GroupTagValue |-> {}]

\* the last issue of a store is another project's
DateStoreSizes == {GROUP_IDS_LIMIT + 1, GROUP_IDS_LIMIT + 2}

\* the calls of query() with a date window, with or without a free text
DateArgs ==
    {[QueryDefaults EXCEPT !.date_from = from[1], !.date_from_inclusive = from[2],
                           !.date_to = to[1], !.date_to_inclusive = to[2],
                           !.query = q] :
        from \in {<<None, TRUE>>, <<1, FALSE>>, <<2, TRUE>>},
        to \in {<<None, TRUE>>, <<3, TRUE>>, <<3, FALSE>>, <<2, TRUE>>},
        q \in {<<>>, <<"f", "O">>}}

InitDate ==
    /\ \E n \in DateStoreSizes : db = DateStore(n)
    /\ tags = NoTags
    /\ pc = "idle"
    /\ call = NoCall
    /\ outcome = NoOutcome
    /\ steps = <<>>
    /\ statement = NoStatement

NextDate == Query(DateArgs)

SpecDate == InitDate /\ [][NextDate]_vars

-----------------------------------------------------------------------------
(* What the claims speak of. *)

QueryCalled == pc = "done" /\ call.fn = "query"
FindCalled == pc = "done" /\ call.fn = "find_candidates"
FilterCalled == pc = "done" /\ call.fn = "filter_candidates"

ReturnedPage == QueryCalled /\ outcome.kind = "returned"

\* the three statuses the default policy hides
HiddenStatuses == {PENDING_DELETION, DELETION_IN_PROGRESS, PENDING_MERGE}

ProjectGroups == {r \in db.Group : r.project = project.id}

GroupById(id) == CHOOSE r \in db.Group : r.id = id

\* the query() call sets no argument but those named
OnlySet(names) ==
    \A n \in DOMAIN QueryDefaults \ names : call.args[n] = QueryDefaults[n]

\* the find_candidates call sets no argument but those named
FindOnlySet(names) ==
    \A n \in DOMAIN FindDefaults \ names : call.args[n] = FindDefaults[n]

-----------------------------------------------------------------------------
(* C1: on PostgreSQL, filter_candidates returns exactly the issue ids that *)
(* are in the candidate set (when given), have the environment row with    *)
(* the target value in the project, a row for every presence key and the   *)
(* row of every key=value constraint; each id once, in non-increasing      *)
(* order of the sort key computed from the environment row.                *)

\* the call sets none of the range arguments
NoRanges(f) ==
    /\ f.age_from = None /\ f.age_to = None
    /\ f.last_seen_from = None /\ f.last_seen_to = None
    /\ f.times_seen = None
    /\ f.times_seen_lower = None /\ f.times_seen_upper = None

\* the environment rows of the project for the call's environment value
EnvironmentRows(f) ==
    {r \in db.GroupTagValue :
        /\ r.project_id = project.id
        /\ r.key = "environment"
        /\ r.value = f.tags.items["environment"]}

HasTag(g, k, v) ==
    \E r \in db.GroupTagValue :
        r.group_id = g /\ r.key = k /\ (v = ANY \/ r.value = v)

\* conditions (1)-(4) of the claim
MatchingIds(f) ==
    {r.group_id : r \in {x \in EnvironmentRows(f) :
        /\ f.candidates_given => x.group_id \in f.candidates
        /\ \A k \in DOMAIN f.tags.items \ {"environment"} :
               HasTag(x.group_id, k, f.tags.items[k])}}

EnvironmentSortKey(f, g) ==
    SortKey(sort_strategies[f.sort_by],
            CHOOSE r \in EnvironmentRows(f) : r.group_id = g)

-----------------------------------------------------------------------------
(* C2: in query/_build_queryset and in find_candidates, assigned_to given  *)
(* together with unassigned (True or False) always raises; the call never  *)
(* returns a result.                                                       *)
C2_BothOwnershipFiltersRaise ==
    (/\ pc = "done"
     /\ call.fn \in {"query", "find_candidates"}
     /\ call.args.assigned_to # NONE
     /\ call.args.unassigned # NONE)
    => outcome.kind = "raised"

-----------------------------------------------------------------------------
(* C3: every range predicate (age, last_seen, active_at, times_seen lower  *)
(* and upper, the event date window) of the primary path and of the        *)
(* environment path keeps a row whose value equals a bound exactly when    *)
(* that bound's *_inclusive flag is True, keeps every value strictly       *)
(* inside the bounds and drops every value strictly outside, also with     *)
(* both bounds given.                                                      *)

\* v is inside the range: beyond each given bound, or on it when inclusive
Admits(v, from, from_inclusive, to, to_inclusive) ==
    /\ from # None => (v > from \/ (v = from /\ from_inclusive))
    /\ to # None => (v < to \/ (v = to /\ to_inclusive))

\* the ranges of query() on the issue row
IssueRangesAdmit(a, r) ==
    /\ Admits(r.first_seen, a.age_from, a.age_from_inclusive,
              a.age_to, a.age_to_inclusive)
    /\ Admits(r.last_seen, a.last_seen_from, a.last_seen_from_inclusive,
              a.last_seen_to, a.last_seen_to_inclusive)
    /\ Admits(r.active_at, a.active_at_from, a.active_at_from_inclusive,
              a.active_at_to, a.active_at_to_inclusive)
    /\ Admits(r.times_seen, a.times_seen_lower, a.times_seen_lower_inclusive,
              a.times_seen_upper, a.times_seen_upper_inclusive)

\* the issue has an event of the project inside the date window
EventWindowAdmits(a, id) ==
    (a.date_from # None \/ a.date_to # None)
    => \E e \in db.Event :
           /\ e.group_id = id
           /\ e.project_id = project.id
           /\ Admits(e.datetime, a.date_from, a.date_from_inclusive,
                     a.date_to, a.date_to_inclusive)

\* the ranges of filter_candidates on the environment tag-value row
TagRangesAdmit(f, r) ==
    /\ Admits(r.first_seen, f.age_from, f.age_from_inclusive,
              f.age_to, f.age_to_inclusive)
    /\ Admits(r.last_seen, f.last_seen_from, f.last_seen_from_inclusive,
              f.last_seen_to, f.last_seen_to_inclusive)
    /\ Admits(r.times_seen, f.times_seen_lower, f.times_seen_lower_inclusive,
              f.times_seen_upper, f.times_seen_upper_inclusive)

RangeArguments ==
    {"age_from", "age_from_inclusive", "age_to", "age_to_inclusive",
     "last_seen_from", "last_seen_from_inclusive",
     "last_seen_to", "last_seen_to_inclusive",
     "active_at_from", "active_at_from_inclusive",
     "active_at_to", "active_at_to_inclusive",
     "date_from", "date_from_inclusive", "date_to", "date_to_inclusive",
     "times_seen_lower", "times_seen_lower_inclusive",
     "times_seen_upper", "times_seen_upper_inclusive"}

\* the issues of the project that the default status policy shows
ShownGroups == {r \in ProjectGroups : r.status \notin HiddenStatuses}

C3_QueryRanges ==
    ReturnedPage
    => /\ \A id \in outcome.value.results :
              /\ IssueRangesAdmit(call.args, GroupById(id))
              /\ EventWindowAdmits(call.args, id)
       /\ OnlySet(RangeArguments)
              => outcome.value.results =
                     {r.id : r \in {x \in ShownGroups :
                                       /\ IssueRangesAdmit(call.args, x)
                                       /\ EventWindowAdmits(call.args, x.id)}}

C3_FindRanges ==
    (FindCalled /\ outcome.kind = "returned")
    => /\ \A id \in outcome.value :
              Admits(GroupById(id).active_at,
                     call.args.active_at_from, call.args.active_at_from_inclusive,
                     call.args.active_at_to, call.args.active_at_to_inclusive)
       /\ FindOnlySet({"active_at_from", "active_at_from_inclusive",
                       "active_at_to", "active_at_to_inclusive"})
              => outcome.value =
                     {r.id : r \in {x \in ShownGroups :
                         Admits(x.active_at, call.args.active_at_from,
                                call.args.active_at_from_inclusive,
                                call.args.active_at_to,
                                call.args.active_at_to_inclusive)}}

\* filter_candidates: the rows its statement selects
C3_FilterRanges ==
    (FilterCalled /\ statement.executed)
    => /\ \A i \in DOMAIN statement.candidates :
              \E r \in EnvironmentRows(call.args) :
                  /\ r.group_id = statement.candidates[i]
                  /\ TagRangesAdmit(call.args, r)
       /\ (DOMAIN call.args.tags.items = {"environment"}
           /\ ~call.args.candidates_given)
              => Range(statement.candidates) =
                     {r.group_id : r \in {x \in EnvironmentRows(call.args) :
                                             TagRangesAdmit(call.args, x)}}

C3_RangeBoundaries == C3_QueryRanges /\ C3_FindRanges /\ C3_FilterRanges

\* a page cut by an inclusive lower and an inclusive upper bound on the same
\* value, holding an issue exactly on it
C3_Witness ==
    /\ ReturnedPage
    /\ call.args.age_from = 2 /\ call.args.age_from_inclusive
    /\ call.args.age_to = 2 /\ call.args.age_to_inclusive
    /\ outcome.value.results # {}
    /\ \A id \in outcome.value.results : GroupById(id).first_seen = 2

-----------------------------------------------------------------------------
(* C4: the statement text of filter_candidates is the same for two calls   *)
(* that differ only in tag keys, tag values and the environment value;     *)
(* those literals are all in the parameter list; the text has as many      *)
(* placeholders as the list has parameters; and the i-th placeholder, in   *)
(* text order (candidate query, lateral presence clauses, WHERE equality   *)
(* conditions), is bound to the value meant for it.                        *)

\* the tags arguments that differ from t only in keys, values, environment
SameShape(t) ==
    {u \in TagArgs :
        /\ u.given
        /\ "environment" \in DOMAIN u.items
        /\ Cardinality(presence_tags(u)) = Cardinality(presence_tags(t))
        /\ Cardinality(specific_tags(u)) = Cardinality(specific_tags(t))}

\* the texts synthesized for the call with its tags replaced by u
TextsFor(f, u) ==
    {statement_text(candidate_conditions(f, u.items["environment"]),
                    f.sort_by, presence, specific) :
        presence \in Perms(presence_tags(u)),
        specific \in Perms(specific_tags(u))}

C4_TextIndependentOfLiterals ==
    \A u \in SameShape(call.args.tags) :
        TextsFor(call.args, u) = {statement.text}

\* no clause of the text holds a tag key, a tag value or the environment
C4_NoLiteralInText ==
    \A i \in DOMAIN statement.text :
        {statement.text[i].column, statement.text[i].op,
         statement.text[i].alias.base, statement.text[i].previous_alias.base}
        \cap (DOMAIN call.args.tags.items
              \cup (Range(call.args.tags.items) \ {ANY})) = {}

\* the value each placeholder of the candidate query is meant for
IntendedFor(f, clause) ==
    CASE clause.column = "project_id" -> <<StrParam(project.id)>>
      [] clause.column = "key" -> <<StrParam("environment")>>
      [] clause.column = "value" -> <<StrParam(f.tags.items["environment"])>>
      [] clause.column = "group_id" ->
             [i \in 1..Cardinality(f.candidates) |->
                 IntParam(SortedList(f.candidates)[i])]
      [] clause.column = "first_seen" /\ clause.op \in {"gt", "gte"} ->
             <<IntParam(f.age_from)>>
      [] clause.column = "first_seen" /\ clause.op \in {"lt", "lte"} ->
             <<IntParam(f.age_to)>>
      [] clause.column = "last_seen" /\ clause.op \in {"gt", "gte"} ->
             <<IntParam(f.last_seen_from)>>
      [] clause.column = "last_seen" /\ clause.op \in {"lt", "lte"} ->
             <<IntParam(f.last_seen_to)>>
      [] clause.column = "times_seen" /\ clause.op \in {"gt", "gte"} ->
             <<IntParam(f.times_seen_lower)>>
      [] clause.column = "times_seen" /\ clause.op \in {"lt", "lte"} ->
             <<IntParam(f.times_seen_upper)>>

\* the clauses of one kind, in text order
RECURSIVE ClausesOf(_, _)
ClausesOf(text, kind) ==
    IF text = <<>> THEN <<>>
    ELSE (IF Head(text).kind = kind THEN <<Len(text)>> ELSE <<>>)
         \o ClausesOf(Tail(text), kind)

\* the positions in the text of the clauses of one kind, ascending
PositionsOf(text, kind) ==
    [i \in DOMAIN ClausesOf(text, kind) |->
        Len(text) + 1 - ClausesOf(text, kind)[i]]

C4_PlaceholdersBound ==
    LET text == statement.text
        parameters == statement.parameters
        laterals == PositionsOf(text, "lateral")
        wheres == PositionsOf(text, "where")
        items == call.args.tags.items
    IN  /\ Placeholders(text) = Len(parameters)
        /\ \A i \in Indices(text, "cte_where") :
               Bound(text, parameters, i) = IntendedFor(call.args, text[i])
        \* each lateral clause is bound to one presence key, each key once
        /\ {Bound(text, parameters, laterals[i])[1] : i \in DOMAIN laterals}
               = {StrParam(k) : k \in presence_tags(call.args.tags)}
        /\ Len(laterals) = Cardinality(presence_tags(call.args.tags))
        \* each WHERE condition is bound to one key and to that key's value
        /\ {Bound(text, parameters, wheres[i]) : i \in DOMAIN wheres}
               = {<<StrParam(k), StrParam(items[k])>> :
                      k \in specific_tags(call.args.tags)}
        /\ Len(wheres) = Cardinality(specific_tags(call.args.tags))
        \* text order: candidate query, lateral clauses, WHERE conditions
        /\ \A i \in Indices(text, "cte_where"), l \in Indices(text, "lateral"),
              w \in Indices(text, "where") : i < l /\ l < w

C4_StatementParameterized ==
    (FilterCalled /\ statement.executed)
    => /\ C4_TextIndependentOfLiterals
       /\ C4_NoLiteralInText
       /\ C4_PlaceholdersBound

\* the statement of the example: candidates, one presence key, one equality
C4_Witness ==
    /\ FilterCalled
    /\ statement.executed
    /\ call.args.candidates = {1, 2, 3}
    /\ presence_tags(call.args.tags) = {"browser"}
    /\ specific_tags(call.args.tags) = {"release"}
    /\ Len(statement.parameters) = 9
    /\ statement.candidates # <<>>

-----------------------------------------------------------------------------
(* C5 as stated: a sort_by with no entry in the dialect's score table is   *)
(* an error on every call of query, whatever the other predicates are.     *)
C5_UnknownSortAlwaysRaises ==
    (QueryCalled /\ call.args.sort_by \notin DOMAIN score_clauses(call.args.engine))
    => outcome.kind = "raised"

\* the call is cut short before the score lookup: first_release is EMPTY, or
\* the tags filter matches no issue
ShortCircuits(a) ==
    \/ a.first_release = EMPTY
    \/ tags_given(a) /\ tag_matches(a, db) = {}

(* C5 as amended: a sort_by with no entry in the dialect's score table     *)
(* raises KeyError on every call of query that reaches the score lookup;   *)
(* a call with first_release EMPTY, or with a tags filter that matches no  *)
(* issue, returns an empty page without looking the sort mode up.          *)
C5_UnknownSortRaisesUnlessShortCircuit ==
    (QueryCalled /\ call.args.sort_by \notin DOMAIN score_clauses(call.args.engine))
    => IF ShortCircuits(call.args)
       THEN /\ outcome.kind = "returned"
            /\ outcome.value.results = {}
            /\ "score_clause" \notin Range(steps)
       ELSE /\ outcome.kind = "raised"
            /\ outcome.exc = "KeyError"

C5_Witness ==
    /\ QueryCalled
    /\ call.args.sort_by = "bogus"
    /\ call.args.status = RESOLVED
    /\ outcome.kind = "raised"
    /\ outcome.exc = "KeyError"

-----------------------------------------------------------------------------
(* C6: with first_release the EMPTY sentinel, query returns an empty page  *)
(* for every combination of the other predicates: it does not raise and    *)
(* holds no issue.                                                         *)
C6_EmptyReleaseGivesEmptyPage ==
    (QueryCalled /\ call.args.first_release = EMPTY)
    => /\ outcome.kind = "returned"
       /\ outcome.value.results = {}

C6_Witness ==
    /\ QueryCalled
    /\ call.args.first_release = EMPTY
    /\ call.args.sort_by = "bogus"
    /\ outcome.kind = "returned"
    /\ outcome.value.results = {}

-----------------------------------------------------------------------------
(* C7: when a non-empty tags filter is given and the tag lookup returns no *)
(* issue, the primary path stops there: the result is an empty page, and   *)
(* no range predicate, no date-window query and no score lookup runs       *)
(* after the lookup.                                                       *)

LaterSteps ==
    {"age", "last_seen", "active_at", "times_seen", "times_seen_range",
     "event_queryset", "group_ids_slice", "group_ids_list", "score_clause"}

C7_NoTagMatchStopsThere ==
    (/\ QueryCalled
     /\ "tags_lookup" \in Range(steps)
     /\ tag_matches(call.args, db) = {})
    => /\ outcome.kind = "returned"
       /\ outcome.value.results = {}
       /\ Range(steps) \cap LaterSteps = {}
       /\ \A i \in DOMAIN steps :
              steps[i] = "tags_lookup" => SubSeq(steps, i + 1, Len(steps))
                                              = <<"order_by", "get_result">>

C7_Witness ==
    /\ QueryCalled
    /\ "tags_lookup" \in Range(steps)
    /\ tag_matches(call.args, db) = {}
    /\ call.args.date_from # None
    /\ outcome.kind = "returned"

-----------------------------------------------------------------------------
(* C8 as stated: for every input, find_candidates called with a            *)
(* first_release raises NotImplementedError, and filter_candidates called  *)
(* on a dialect other than PostgreSQL raises NotImplementedError, both     *)
(* before any query has been executed against a store.                     *)

\* the call is one of the unsupported environment-scoped combinations
Unsupported ==
    \/ FindCalled /\ call.args.first_release # NONE
    \/ FilterCalled /\ ~is_postgres(call.args.engine)

C8_UnsupportedRaisesNotImplemented ==
    Unsupported
    => /\ outcome.kind = "raised"
       /\ outcome.exc = "NotImplementedError"
       /\ "execute" \notin Range(steps)
       /\ ~statement.executed

\* the check that fails before the not-implemented branch is reached
EarlierFailure ==
    IF call.fn = "find_candidates"
    THEN IF /\ call.args.assigned_to # NONE
            /\ call.args.unassigned # NONE
            /\ ~call.args.optimize
         THEN "AssertionError" ELSE NONE
    ELSE IF ~call.args.tags.given THEN "AttributeError"
    ELSE IF "environment" \notin DOMAIN call.args.tags.items THEN "KeyError"
    ELSE IF call.args.times_seen # None THEN "AttributeError"
    ELSE IF call.args.sort_by \notin DOMAIN sort_strategies THEN "KeyError"
    ELSE NONE

(* C8 as amended: the unsupported combinations always raise and never      *)
(* return a result, before any query is executed; the exception is         *)
(* NotImplementedError unless an earlier check of the same call fails      *)
(* first: in find_candidates the assert on assigned_to with unassigned     *)
(* (AssertionError); in filter_candidates tags None or an exact times_seen *)
(* (AttributeError), tags without 'environment' or an unknown sort_by      *)
(* (KeyError).                                                             *)
C8_UnsupportedAlwaysRaises ==
    Unsupported
    => /\ outcome.kind = "raised"
       /\ outcome.exc = (IF EarlierFailure = NONE THEN "NotImplementedError"
                         ELSE EarlierFailure)
       /\ "execute" \notin Range(steps)
       /\ ~statement.executed

C8_Witness ==
    /\ FindCalled
    /\ call.args.first_release = "1.0"
    /\ call.args.status = RESOLVED
    /\ call.args.assigned_to = NONE
    /\ outcome.kind = "raised"
    /\ outcome.exc = "NotImplementedError"

-----------------------------------------------------------------------------
(* C9: with a date window, the ids that restrict the result are at most    *)
(* 1000 distinct ids, each the group of an event of the project inside the *)
(* window (matching the free text when given); the result is a subset of   *)
(* the result of an uncapped window, and equals it when 1000 or fewer      *)
(* groups match.                                                           *)

\* the events of the project inside the window, matching the free text
WindowEvents(a) ==
    {e \in db.Event :
        /\ e.project_id = project.id
        /\ Admits(e.datetime, a.date_from, a.date_from_inclusive,
                  a.date_to, a.date_to_inclusive)
        /\ a.query # <<>> => icontains(e.message, a.query)}

WindowGroups(a) == {e.group_id : e \in WindowEvents(a)}

\* the page of the same call with no cap on the window's ids
UncappedResults == query(call.args, db, WindowGroups(call.args)).value.results

C9_DateWindowCap ==
    (ReturnedPage /\ date_window_given(call.args))
    => /\ Cardinality(call.group_ids) <= 1000
       /\ call.group_ids \subseteq WindowGroups(call.args)
       /\ outcome.value.results \subseteq call.group_ids
       /\ outcome.value.results \subseteq UncappedResults
       /\ Cardinality(WindowGroups(call.args)) <= 1000
              => outcome.value.results = UncappedResults

\* more than 1000 groups match and the cap cuts one of the shown issues
C9_Witness ==
    /\ ReturnedPage
    /\ date_window_given(call.args)
    /\ Cardinality(WindowGroups(call.args)) > 1000
    /\ Cardinality(call.group_ids) = 1000
    /\ outcome.value.results # UncappedResults
    /\ outcome.value.results # {}

-----------------------------------------------------------------------------
(* C10: in _build_queryset and in find_candidates, with status absent the  *)
(* result leaves out exactly the issues that are pending deletion, being   *)
(* deleted or pending merge; with status given it holds only the issues of *)
(* that status, also when that status is one of the three.                 *)

StatusAllows(a, r) ==
    IF a.status = NONE THEN r.status \notin HiddenStatuses
    ELSE r.status = a.status

\* the ids a call returned: the page's, or the candidate set
ResultIds ==
    IF call.fn = "query" THEN outcome.value.results ELSE outcome.value

C10_StatusFilter ==
    (/\ pc = "done"
     /\ call.fn \in {"query", "find_candidates"}
     /\ outcome.kind = "returned")
    => /\ \A id \in ResultIds :
              /\ \E r \in ProjectGroups : r.id = id
              /\ StatusAllows(call.args, GroupById(id))
       /\ (IF call.fn = "query" THEN OnlySet({"status"}) ELSE FindOnlySet({"status"}))
              => ResultIds = {r.id : r \in {x \in ProjectGroups :
                                               StatusAllows(call.args, x)}}

C10_Witness ==
    /\ FindCalled
    /\ call.args.status = PENDING_MERGE
    /\ FindOnlySet({"status"})
    /\ outcome.kind = "returned"
    /\ outcome.value = {6}

-----------------------------------------------------------------------------
(* C11: a search call changes nothing its caller can observe: after        *)
(* filter_candidates returns or raises, the caller's tags mapping has the  *)
(* same keys and values as before the call.                                *)
C11_TagsArgumentUnchanged ==
    FilterCalled => tags = call.args.tags

-----------------------------------------------------------------------------
(* C12: in filter_candidates an exact times_seen value N does not make the *)
(* call fail: the call completes with a result, and the issues its         *)
(* statement selects are those whose environment tag-value row has         *)
(* times_seen equal to N.                                                  *)
C12_ExactTimesSeenFilters ==
    (/\ FilterCalled
     /\ is_postgres(call.args.engine)
     /\ call.args.tags.given
     /\ "environment" \in DOMAIN call.args.tags.items
     /\ call.args.sort_by \in DOMAIN sort_strategies
     /\ call.args.times_seen # None)
    => /\ outcome.kind = "returned"
       /\ statement.executed
       /\ \A i \in DOMAIN statement.candidates :
              \E r \in EnvironmentRows(call.args) :
                  /\ r.group_id = statement.candidates[i]
                  /\ r.times_seen = call.args.times_seen

====
